---- MODULE Spec2Model ----
(***************************************************************************)
(* Model of tg_garena_formatter.py: the Telegram bot that polls a status   *)
(* endpoint for every tracked Garena account and notifies the owning chat. *)
(*                                                                         *)
(* The bot runs on one asyncio event loop.  A coroutine runs without       *)
(* interruption from one `await` to the next, so every action below is the *)
(* code between two awaits of a handler or of periodic_check, the awaits   *)
(* inside api_check_unlocked included.                                     *)
(***************************************************************************)
EXTENDS Integers, Sequences, FiniteSets, TLC

VARIABLES
    file,       \* data.json: [exists, text]
    disk,       \* "sound", or "faulty": a write of data.json may fail part-way
    cmdErr,     \* the exception that left the last command handler ("": none)
    spc,        \* position of periodic_check: "idle", "probe" (awaiting session.post, line 59),
                \* "text" (awaiting resp.text(), line 60), "send" (awaiting send_message, line 156)
    resp,       \* api_check_unlocked's resp while its body is awaited: resp.status (0: no response at hand)
    d,          \* periodic_check's local d: the snapshot the running (or the last) sweep loaded at line 145
    k,          \* index of the current (chat_id, acc) pair in the nested loops of lines 150-151
    res,        \* periodic_check's local res (line 152)
    sweepNo,    \* number of periodic_check runs started so far
    running,    \* number of periodic_check instances the scheduler has running
    ended,      \* how the last periodic_check run ended: "" (none yet, or running), "not-configured"
                \* (line 148 returned), "returned" (the loops were exhausted), "raised" (an exception left it)
    log,        \* history of the last sweep: probes answered, messages delivered, sends that raised
    failedAt,   \* history of the last sweep: the first step whose probe failed (0: none)
    notified,   \* history: the <<chat id, account>> messages delivered by earlier sweeps
    undelivered, \* history: the <<chat id, account>> message whose send raised in the sweep
                \* before this one (a raise ends the sweep) and that no sweep has delivered
    cmds,       \* number of commands with an argument handled so far (one without, and /list, only replies)
    added,      \* history: how many completed /add commands per <<chat, account>>
    lastSet,    \* history: the url / token of the last completed /setapi and /settoken
    p_in,       \* direct call of api_check_unlocked: its arguments and the network outcome
    p_out       \* direct call of api_check_unlocked: its result (pending until called)

sweepVars == <<spc, resp, d, k, res, sweepNo, running, ended, log, failedAt, notified, undelivered>>
cmdVars == <<cmdErr, cmds, added, lastSet>>
botVars == <<file, disk, sweepVars, cmdVars>>
probeVars == <<p_in, p_out>>
vars == <<botVars, probeVars>>

(***************************************************************************)
(* Bounds                                                                  *)
(***************************************************************************)
MaxCmds == 2        \* commands with an argument handled in one behaviour
MaxSweeps == 2      \* periodic_check runs in one behaviour

Chats == {"1001", "1002"}            \* str(update.effective_chat.id)
Accounts == {"gamer123", "acc2"}     \* the account names in data.json and in requests
AddWords == {"gamer123"}             \* context.args[0] of /add
Urls == {"http://b"}                 \* context.args[0] of /setapi
Tokens == {"tokB"}                   \* context.args[0] of /settoken

(***************************************************************************)
(* JSON values of a response body.  A value is named by its JSON text;     *)
(* Truthy is Python's bool() on the parsed value.                          *)
(***************************************************************************)
JScalars == {"null", "false", "true", "0", "1", "''", "'no'", "[]", "[0]"}

Truthy(v) == v \notin {"null", "false", "0", "''", "[]", "{}"}

\* The value under "data": a non-mapping JSON value, or a mapping with or without "unlocked".
NoData == [isdict |-> FALSE, val |-> "absent", has_unlocked |-> FALSE, unlocked |-> "null"]
DataValues ==
    {NoData}
    \cup {[isdict |-> FALSE, val |-> v, has_unlocked |-> FALSE, unlocked |-> "null"] : v \in {"null", "[0]", "1"}}
    \cup {[isdict |-> TRUE, val |-> "{}", has_unlocked |-> FALSE, unlocked |-> "null"]}
    \cup {[isdict |-> TRUE, val |-> "{..}", has_unlocked |-> TRUE, unlocked |-> v] : v \in {"true", "false", "1", "''"}}

\* A response body: text that json.loads rejects, a JSON value that is no mapping,
\* or a mapping with optional keys "unlocked", "status" and "data".
TextBody == [kind |-> "text", val |-> "<html>", has_unlocked |-> FALSE, unlocked |-> "null",
             status |-> "absent", data |-> NoData]
Bodies ==
    {TextBody}
    \cup {[kind |-> "json", val |-> v, has_unlocked |-> FALSE, unlocked |-> "null",
           status |-> "absent", data |-> NoData] : v \in {"null", "[0]", "true", "1"}}
    \cup {[kind |-> "dict", val |-> "{..}", has_unlocked |-> FALSE, unlocked |-> "null",
           status |-> s, data |-> dv] : s \in {"absent", "ok", "success", "error", "1"}, dv \in DataValues}
    \cup {[kind |-> "dict", val |-> "{..}", has_unlocked |-> TRUE, unlocked |-> v,
           status |-> s, data |-> dv] :
             v \in JScalars, s \in {"absent", "ok", "error"}, dv \in {NoData} \cup {x \in DataValues : x.has_unlocked}}
    \cup {[kind |-> "dict", val |-> "{}", has_unlocked |-> FALSE, unlocked |-> "null",
           status |-> "absent", data |-> NoData]}

HttpStatuses == {200, 399, 400, 500}

\* What the network does with one request: an exception out of session.post
\* (connection error, timeout), an exception out of resp.text(), or a response.
NoResponse(kind, err) == [kind |-> kind, error |-> err, status |-> 0, body |-> TextBody]
Outcomes ==
    {NoResponse("post_raises", "ClientConnectorError"), NoResponse("post_raises", "TimeoutError"),
     NoResponse("text_raises", "ClientPayloadError")}
    \cup {[kind |-> "response", error |-> "", status |-> st, body |-> b] : st \in HttpStatuses, b \in Bodies}

(***************************************************************************)
(* api_check_unlocked (lines 51-79)                                        *)
(***************************************************************************)
StatusCode(c) == [code |-> c, name |-> ""]       \* out["status"] = resp.status
StatusName(s) == [code |-> 0, name |-> s]        \* out["status"] = "not-configured" / "error" / None
RawNone == [kind |-> "None", text |-> ""]

\* line 52
InitialOut == [ok |-> FALSE, unlocked |-> FALSE, raw |-> RawNone, status |-> StatusName("None")]

\* lines 61-66: parsed = json.loads(text), None when it raises; raw = parsed or text
ParsedOrText(body) ==
    IF body.kind # "text" /\ Truthy(body.val) THEN [kind |-> "parsed", text |-> body.val]
    ELSE [kind |-> "text", text |-> body.val]

\* ExtractUnlocked with the two rules in the other order: the status/data shape is tried first
ExtractUnlocked_NestedFirst(body) ==
    IF body.kind = "dict"
    THEN IF body.status \in {"ok", "success"} /\ body.data.isdict /\ body.data.has_unlocked
         THEN Truthy(body.data.unlocked)
         ELSE body.has_unlocked /\ Truthy(body.unlocked)
    ELSE FALSE

\* lines 68-74: the unlocked signal of a parsed body
ExtractUnlocked(body) ==
    IF body.kind = "dict"
    THEN IF body.has_unlocked
         THEN Truthy(body.unlocked)
         ELSE IF body.status \in {"ok", "success"}
              THEN LET inner == IF body.data.val # "absent" /\ Truthy(body.data.val)
                                THEN body.data
                                ELSE [isdict |-> TRUE, val |-> "{}", has_unlocked |-> FALSE, unlocked |-> "null"]
                   IN  IF inner.isdict /\ inner.has_unlocked THEN Truthy(inner.unlocked) ELSE FALSE
              ELSE FALSE
    ELSE FALSE

\* CaughtByExcept narrowed to `except aiohttp.ClientError`: a timeout is not caught
CaughtByExcept_ClientErrorOnly(outcome) ==
    outcome.kind \in {"post_raises", "text_raises"} /\ outcome.error # "TimeoutError"

\* lines 76-79: except Exception as e
CaughtByExcept(outcome) == outcome.kind \in {"post_raises", "text_raises"}

ExceptHandler(out, outcome) ==
    [out EXCEPT !.status = StatusName("error"), !.raw = [kind |-> "error", text |-> outcome.error]]

\* NotConfigured with `and` for `or`: only a call with neither url nor token is short-circuited
NotConfigured_Both(base_url, bearer) == base_url = "" /\ bearer = ""

\* line 53: the short-circuit test
NotConfigured(base_url, bearer) == base_url = "" \/ bearer = ""

\* The whole call: the record returned (out), whether an exception left the
\* call instead (raised), and how many requests went to the network.
api_check_unlocked(base_url, bearer, account, outcome) ==
    IF NotConfigured(base_url, bearer)
    THEN [raised |-> FALSE, network_calls |-> 0,
          out |-> [InitialOut EXCEPT !.status = StatusName("not-configured")]]
    ELSE IF outcome.kind # "response"
         THEN IF CaughtByExcept(outcome)
              THEN [raised |-> FALSE, network_calls |-> 1, out |-> ExceptHandler(InitialOut, outcome)]
              ELSE [raised |-> TRUE, network_calls |-> 1, out |-> InitialOut]
         ELSE [raised |-> FALSE, network_calls |-> 1,
               out |-> [ok |-> outcome.status < 400,
                        unlocked |-> ExtractUnlocked(outcome.body),
                        raw |-> ParsedOrText(outcome.body),
                        status |-> StatusCode(outcome.status)]]

(***************************************************************************)
(* The store: load_data / save_data (lines 33-49)                          *)
(***************************************************************************)
DefaultInterval == 5

EmptyMap == [a \in {} |-> FALSE]

\* the keys of the top-level mapping
TopKeys == {"chats", "api", "last_seen_unlocked", "include_raw"}

\* A loaded d: the top-level keys it has and, for each, its value (a key it
\* lacks keeps the placeholder of DefaultData).
\* lines 35-40 and 45
DefaultData == [keys |-> TopKeys, chats |-> <<>>, api |-> [url |-> "", token |-> ""],
                last_seen_unlocked |-> EmptyMap, include_raw |-> FALSE]

(***************************************************************************)
(* json.dump / json.load (lines 43 and 49).  The text of data.json is the  *)
(* JSON document: numbers and booleans as their JSON literals, a mapping   *)
(* as its members (key, value), a list as its items.                       *)
(***************************************************************************)
IntText(n) == CASE n = 5 -> "5" [] n = 10 -> "10"
ParseInt(t) == CASE t = "5" -> 5 [] t = "10" -> 10
\* BoolText as str(b) would write it: text that json.load does not read back as the bool
BoolText_PyRepr(b) == IF b THEN "True" ELSE "False"

BoolText(b) == IF b THEN "true" ELSE "false"
ParseBool(t) == t = "true"

\* json.dump(d, f, ensure_ascii=False, indent=2) of a well-formed d
json_dump(dd) ==
    [valid |-> TRUE,
     keys |-> dd.keys,
     chats |-> [i \in DOMAIN dd.chats |->
                  [key |-> dd.chats[i].id,
                   value |-> [accounts |-> dd.chats[i].accounts,
                              interval_min |-> IntText(dd.chats[i].interval_min)]]],
     api |-> <<[key |-> "url", value |-> dd.api.url], [key |-> "token", value |-> dd.api.token]>>,
     last_seen_unlocked |-> {[key |-> a, value |-> BoolText(dd.last_seen_unlocked[a])] :
                               a \in DOMAIN dd.last_seen_unlocked},
     include_raw |-> BoolText(dd.include_raw)]

\* the value of member key in a sequence of members
Member(members, key) == (CHOOSE i \in DOMAIN members : members[i].key = key)

\* json.load(f) of a text that parses
json_load(text) ==
    [keys |-> text.keys,
     chats |-> [i \in DOMAIN text.chats |->
                  [id |-> text.chats[i].key,
                   accounts |-> text.chats[i].value.accounts,
                   interval_min |-> ParseInt(text.chats[i].value.interval_min)]],
     api |-> [url |-> text.api[Member(text.api, "url")].value,
              token |-> text.api[Member(text.api, "token")].value],
     last_seen_unlocked |-> [a \in {m.key : m \in text.last_seen_unlocked} |->
                               ParseBool((CHOOSE m \in text.last_seen_unlocked : m.key = a).value)],
     include_raw |-> ParseBool(text.include_raw)]

\* a text json.load rejects: an empty or cut-off file, or anything that is no JSON
GarbageText == [json_dump(DefaultData) EXCEPT !.valid = FALSE, !.keys = {}]

\* the JSON document {}: it parses, and has none of the keys
EmptyObjectText == [json_dump(DefaultData) EXCEPT !.keys = {}]

MissingFile == [exists |-> FALSE, text |-> GarbageText]

\* lines 33-45
load_data(f) ==
    IF ~f.exists THEN DefaultData
    ELSE IF ~f.text.valid THEN DefaultData
    ELSE json_load(f.text)

\* lines 47-49, the write completing
save_data(f, dd) == [exists |-> TRUE, text |-> json_dump(dd)]

\* lines 48-49 failing part-way: open(..., "w") has emptied the file, the dump is cut off
save_data_fails(f, dd) == [exists |-> TRUE, text |-> GarbageText]

\* what a write of data.json can do
WriteOutcomes == IF disk = "faulty" THEN {"ok", "fails"} ELSE {"ok"}

\* d[key] raises KeyError
KeyMissing(dd, key) == key \notin dd.keys

\* d.get("api", {}), with .get("url") / .get("token") of a missing key as ""
ApiOf(dd) == IF KeyMissing(dd, "api") THEN [url |-> "", token |-> ""] ELSE dd.api

\* d["chats"] is an insertion-ordered mapping: a sequence of entries with distinct ids.
ChatIndex(dd, chat) ==
    IF \E i \in DOMAIN dd.chats : dd.chats[i].id = chat
    THEN CHOOSE i \in DOMAIN dd.chats : dd.chats[i].id = chat
    ELSE 0

\* AddAccount that assigns the entry instead of setdefault(): the chat's earlier accounts are lost
AddAccount_Overwrite(dd, chat, acc) ==
    LET i == ChatIndex(dd, chat)
        entry == [id |-> chat, accounts |-> <<acc>>, interval_min |-> DefaultInterval]
    IN  IF i = 0 THEN [dd EXCEPT !.chats = Append(@, entry)] ELSE [dd EXCEPT !.chats[i] = entry]

\* AddAccount that puts the account at the front of the list: insert(0, acc) for append(acc)
AddAccount_Prepend(dd, chat, acc) ==
    LET i == ChatIndex(dd, chat) IN
    IF i = 0
    THEN [dd EXCEPT !.chats = Append(@, [id |-> chat, accounts |-> <<acc>>, interval_min |-> DefaultInterval])]
    ELSE [dd EXCEPT !.chats[i].accounts = <<acc>> \o @]

\* line 108: d["chats"].setdefault(chat, {"accounts": [], "interval_min": 5})["accounts"].append(acc)
AddAccount(dd, chat, acc) ==
    LET i == ChatIndex(dd, chat) IN
    IF i = 0
    THEN [dd EXCEPT !.chats = Append(@, [id |-> chat, accounts |-> <<acc>>, interval_min |-> DefaultInterval])]
    ELSE [dd EXCEPT !.chats[i].accounts = Append(@, acc)]

\* SetToken that starts the cache afresh for the new credentials
SetToken_DropsCache(dd, tok) == [dd EXCEPT !.api.token = tok, !.last_seen_unlocked = EmptyMap]

\* lines 124 and 132
SetUrl(dd, url) == [dd EXCEPT !.api.url = url]
SetToken(dd, tok) == [dd EXCEPT !.api.token = tok]

\* context.args[0].strip(): the arguments are the whitespace-separated words
\* of the message, so there is nothing to strip.
Strip(word) == word

\* str(update.effective_chat.id) at line 106 and int(chat_id) at line 156
ChatIds == {1001, 1002}
StrOf(n) == CASE n = 1001 -> "1001" [] n = 1002 -> "1002"
IntOf(s) == CASE s = "1001" -> 1001 [] s = "1002" -> 1002

(***************************************************************************)
(* format_notification (lines 81-93); the two timestamps are left out.     *)
(***************************************************************************)
format_notification(account, unlocked) ==
    [account |-> account, status_text |-> IF unlocked THEN "Tai khoan da mo khoa" ELSE "Tai khoan bi cam"]

NoText == [account |-> "", status_text |-> ""]

(***************************************************************************)
(* periodic_check (lines 144-156)                                          *)
(***************************************************************************)
RECURSIVE PairsOf(_, _)
\* the pairs of one chat entry, in list order (line 151)
PairsOf(chat, accounts) ==
    IF accounts = <<>> THEN <<>>
    ELSE <<[chat |-> chat, acc |-> Head(accounts)]>> \o PairsOf(chat, Tail(accounts))

RECURSIVE FlattenChats(_)
\* the nested loops of lines 150-151 as one sequence of (chat_id, acc) steps
FlattenChats(chats) ==
    IF chats = <<>> THEN <<>>
    ELSE PairsOf(Head(chats).id, Head(chats).accounts) \o FlattenChats(Tail(chats))

Steps(dd) == FlattenChats(dd.chats)

\* the outcomes the endpoint produces during sweeps
SweepOutcomes ==
    {o \in Outcomes :
        \/ o.kind = "post_raises" /\ o.error = "TimeoutError"
        \/ o.kind = "text_raises"
        \/ /\ o.kind = "response"
           /\ \/ o.status = 200 /\ o.body = TextBody
              \/ o.status = 200 /\ o.body.kind = "dict" /\ o.body.val = "{}"
              \/ /\ o.status \in {200, 500}
                 /\ o.body.kind = "dict" /\ o.body.has_unlocked /\ o.body.unlocked \in {"true", "false"}
                 /\ o.body.status = "absent" /\ o.body.data = NoData}

\* Snapshot that reads data.json again at every use
Snapshot_Reread(f, dd) == load_data(f)

\* the d that lines 146-156 read: the dict line 145 loaded, whatever data.json holds by now
Snapshot(f, dd) == dd

\* one entry of log: step k of n, its pair, what the probe said, where the message went
Event(ev, step, unlocked, to, text) ==
    [ev |-> ev, k |-> k, n |-> Len(Steps(d)), chat |-> step.chat, acc |-> step.acc,
     url |-> Snapshot(file, d).api.url, unlocked |-> unlocked, to |-> to, text |-> text]

\* the texts that leave parsed = None at lines 61-64: json.loads raises on it, or it is the literal null
ParsedNone(text) == text \in {"<html>", "null"}

\* "failed" by the probe's own record: no response, an HTTP error status, or a
\* body that gave no parsed value (raw holds the text also for a falsy parsed
\* value such as {}, which is no failure)
ProbeFailed(out) == ~out.ok \/ (out.raw.kind = "text" /\ ParsedNone(out.raw.text))

\* the messages the sweep recorded in lg delivered
Delivered(lg) == {<<lg[i].to, lg[i].acc>> : i \in {j \in DOMAIN lg : lg[j].ev = "sent"}}

\* the messages whose send_message the sweep recorded in lg raised
Undelivered(lg) == {<<lg[i].to, lg[i].acc>> : i \in {j \in DOMAIN lg : lg[j].ev = "send_failed"}}

\* the coroutine ends: line 148 returned, the loops are exhausted, or an exception leaves it
SweepEnds(how) ==
    /\ spc' = "idle" /\ resp' = 0 /\ k' = 0 /\ res' = InitialOut /\ ended' = how

SweepRaises == SweepEnds("raised")

\* the end of one loop body: the next pair is probed, or the loops are exhausted
NextStep ==
    IF k < Len(Steps(Snapshot(file, d)))
    THEN spc' = "probe" /\ resp' = 0 /\ k' = k + 1 /\ d' = d /\ res' = InitialOut /\ ended' = ""
    ELSE SweepEnds("returned") /\ d' = d

\* SweepConfigured that forgets the token: line 148 as `if not base_url: return`
SweepConfigured_UrlOnly(dd) == ApiOf(dd).url # ""

\* line 148
SweepConfigured(dd) == ~NotConfigured(ApiOf(dd).url, ApiOf(dd).token)

\* line 160: add_job(...) sets no max_instances, so the scheduler's default of one applies
MaxInstances == 1

\* CanStart without the limit: every tick starts a run
CanStart_NoLimit(n) == TRUE

\* the scheduler starts a run of the job only while fewer than max_instances are running
CanStart(n) == n < MaxInstances

\* the instance count once the step is taken: a run that ended is no longer running
StillRunning(n) == IF spc' = "idle" THEN n - 1 ELSE n

\* Recipient that takes the first subscriber of the snapshot for every message
Recipient_FirstSubscriber(step) == IntOf(Steps(d)[1].chat)

\* the recipient of the message, chat_id=int(chat_id) with the loop variable of line 150
Recipient(step) == IntOf(step.chat)

\* Fires that holds back a message this bot already tried to send, delivered or not
Fires_NotAfterAttempt(out, to, acc) == out.unlocked /\ <<to, acc>> \notin undelivered

\* line 153: if res.get("unlocked")
Fires(out, to, acc) == out.unlocked

\* a tick of the interval trigger starts the job: lines 145-152, up to the first request
periodic_check ==
    /\ CanStart(running) /\ sweepNo < MaxSweeps
    /\ sweepNo' = sweepNo + 1
    /\ notified' = notified \cup Delivered(log)
    /\ undelivered' = Undelivered(log) \ (notified \cup Delivered(log))
    /\ log' = <<>> /\ failedAt' = 0
    /\ LET dd == load_data(file) IN
       /\ d' = dd
       /\ IF ~SweepConfigured(dd) THEN SweepEnds("not-configured")
          ELSE IF KeyMissing(dd, "chats") THEN SweepRaises
          ELSE IF Steps(dd) = <<>> THEN SweepEnds("returned")
          ELSE spc' = "probe" /\ resp' = 0 /\ k' = 1 /\ res' = InitialOut /\ ended' = ""
    /\ running' = StillRunning(running + 1)
    /\ UNCHANGED <<file, disk, cmdVars, probeVars>>

\* a tick of the interval trigger while the job is running: the scheduler
\* skips the run, and nothing of the bot changes
TickSkipped ==
    /\ ~CanStart(running)
    /\ UNCHANGED vars

\* lines 152-156, once api_check_unlocked has returned r for the current pair:
\* on unlocked the message is sent, else the loops go on
ProbeResult(step, r) ==
    IF r.raised
    THEN SweepRaises /\ UNCHANGED <<d, log, failedAt>>
    ELSE /\ log' = Append(log, Event("probe", step, r.out.unlocked, 0, NoText))
         /\ failedAt' = IF failedAt = 0 /\ ProbeFailed(r.out) THEN k ELSE failedAt
         /\ IF Fires(r.out, Recipient(step), step.acc)
            THEN spc' = "send" /\ resp' = 0 /\ res' = r.out /\ UNCHANGED <<k, d, ended>>
            ELSE NextStep

\* line 59: session.post ends.  With a response the call goes on to await its
\* body at line 60; an exception is caught at line 76 and the call returns.
PostAnswers ==
    /\ spc = "probe"
    /\ \E outcome \in SweepOutcomes :
         LET cur == Snapshot(file, d)
             step == Steps(cur)[k]
         IN  IF outcome.kind = "post_raises"
             THEN ProbeResult(step, api_check_unlocked(cur.api.url, cur.api.token, step.acc, outcome))
             ELSE /\ outcome.kind = "response"
                  /\ spc' = "text" /\ resp' = outcome.status
                  /\ UNCHANGED <<d, k, res, ended, log, failedAt>>
    /\ running' = StillRunning(running)
    /\ UNCHANGED <<file, disk, sweepNo, notified, undelivered, cmdVars, probeVars>>

\* lines 60-75 and 152-156: resp.text() ends, with the body of the response
\* at hand or with an exception (caught at line 76), and the call returns
BodyArrives ==
    /\ spc = "text"
    /\ \E outcome \in SweepOutcomes :
         /\ \/ outcome.kind = "text_raises"
            \/ outcome.kind = "response" /\ outcome.status = resp
         /\ LET cur == Snapshot(file, d)
                step == Steps(cur)[k]
            IN  ProbeResult(step, api_check_unlocked(cur.api.url, cur.api.token, step.acc, outcome))
    /\ running' = StillRunning(running)
    /\ UNCHANGED <<file, disk, sweepNo, notified, undelivered, cmdVars, probeVars>>

\* line 156: send_message delivers the message
SendDelivered ==
    /\ spc = "send"
    /\ LET step == Steps(Snapshot(file, d))[k] IN
       log' = Append(log, Event("sent", step, res.unlocked, Recipient(step), format_notification(step.acc, TRUE)))
    /\ NextStep
    /\ running' = StillRunning(running)
    /\ UNCHANGED <<file, disk, sweepNo, failedAt, notified, undelivered, cmdVars, probeVars>>

\* line 156: send_message raises (the chat blocked the bot, a network error); nothing catches it
SendRaises ==
    /\ spc = "send"
    /\ LET step == Steps(Snapshot(file, d))[k] IN
       log' = Append(log, Event("send_failed", step, res.unlocked, Recipient(step), format_notification(step.acc, TRUE)))
    /\ SweepRaises
    /\ running' = StillRunning(running)
    /\ UNCHANGED <<d, file, disk, sweepNo, failedAt, notified, undelivered, cmdVars, probeVars>>

(***************************************************************************)
(* Command handlers (lines 103-134).  Each runs from its start to its one  *)
(* await, the reply_text that ends it, without interruption; the reply     *)
(* touches no state of the bot.                                            *)
(***************************************************************************)
Args(S) == {<<>>} \cup {<<w>> : w \in S}

\* lines 107-109 / 123-125 / 131-133: load_data, the change, save_data.
\* change is the changed d; key is the top-level key the change subscripts.
\* The result: the file afterwards and the exception that left the handler.
LoadModifySave(f, key, change, wr) ==
    IF KeyMissing(load_data(f), key) THEN [file |-> f, err |-> "KeyError"]
    ELSE IF wr = "ok" THEN [file |-> save_data(f, change), err |-> ""]
    ELSE [file |-> save_data_fails(f, change), err |-> "OSError"]

\* lines 103-110
cmd_add ==
    /\ cmds < MaxCmds
    /\ \E chat_id \in ChatIds, args \in Args(AddWords), wr \in WriteOutcomes :
         IF args = <<>>
         THEN cmdErr' = "" /\ UNCHANGED <<file, cmds, added>>
         ELSE LET acc == Strip(args[1])
                  chat == StrOf(chat_id)
                  r == LoadModifySave(file, "chats", AddAccount(load_data(file), chat, acc), wr)
              IN  /\ cmds' = cmds + 1
                  /\ file' = r.file
                  /\ cmdErr' = r.err
                  /\ added' = IF r.err = "" THEN [added EXCEPT ![<<chat, acc>>] = @ + 1] ELSE added
    /\ UNCHANGED <<disk, sweepVars, lastSet, probeVars>>

\* lines 112-118: the reply is built from the loaded d; nothing is written
cmd_list ==
    /\ cmds < MaxCmds
    /\ cmdErr' = IF KeyMissing(load_data(file), "chats") THEN "KeyError" ELSE ""
    /\ UNCHANGED <<file, disk, sweepVars, cmds, added, lastSet, probeVars>>

\* lines 120-126
cmd_setapi ==
    /\ cmds < MaxCmds
    /\ \E args \in Args(Urls), wr \in WriteOutcomes :
         IF args = <<>>
         THEN cmdErr' = "" /\ UNCHANGED <<file, cmds, lastSet>>
         ELSE LET url == Strip(args[1])
                  r == LoadModifySave(file, "api", SetUrl(load_data(file), url), wr)
              IN  /\ cmds' = cmds + 1
                  /\ file' = r.file
                  /\ cmdErr' = r.err
                  /\ lastSet' = IF r.err = "" THEN [lastSet EXCEPT !.url = url] ELSE lastSet
    /\ UNCHANGED <<disk, sweepVars, added, probeVars>>

\* lines 128-134
cmd_settoken ==
    /\ cmds < MaxCmds
    /\ \E args \in Args(Tokens), wr \in WriteOutcomes :
         IF args = <<>>
         THEN cmdErr' = "" /\ UNCHANGED <<file, cmds, lastSet>>
         ELSE LET tok == Strip(args[1])
                  r == LoadModifySave(file, "api", SetToken(load_data(file), tok), wr)
              IN  /\ cmds' = cmds + 1
                  /\ file' = r.file
                  /\ cmdErr' = r.err
                  /\ lastSet' = IF r.err = "" THEN [lastSet EXCEPT !.token = tok] ELSE lastSet
    /\ UNCHANGED <<disk, sweepVars, added, probeVars>>

(***************************************************************************)
(* Initial states: data.json is absent (first start), or was left by an    *)
(* earlier run: a configured endpoint, one chat tracking two accounts, and *)
(* a last_seen_unlocked cache that marks the second account.               *)
(***************************************************************************)
BootData ==
    [keys |-> TopKeys,
     chats |-> << [id |-> "1001", accounts |-> <<"gamer123", "acc2">>, interval_min |-> 10] >>,
     api |-> [url |-> "http://a", token |-> "tokA"],
     last_seen_unlocked |-> [a \in {"acc2"} |-> TRUE], include_raw |-> FALSE]

InitialFiles == {MissingFile, save_data(MissingFile, BootData)}

\* data.json as something else may have left it: cut off, or a JSON document without the keys
DamagedFiles == {[exists |-> TRUE, text |-> GarbageText], [exists |-> TRUE, text |-> EmptyObjectText]}

RECURSIVE CountIn(_, _)
CountIn(seq, x) ==
    IF seq = <<>> THEN 0 ELSE (IF Head(seq) = x THEN 1 ELSE 0) + CountIn(Tail(seq), x)

\* how many times chat tracks acc in dd
Tracked(dd, chat, acc) ==
    LET i == ChatIndex(dd, chat) IN IF i = 0 THEN 0 ELSE CountIn(dd.chats[i].accounts, acc)

PendingResult == [raised |-> FALSE, network_calls |-> 0, out |-> InitialOut, done |-> FALSE]

\* no direct call is in hand
NoCall == "none"

IdleProbe == p_in = NoCall /\ p_out = NoCall

\* the bot right after on_startup, over the file it finds
Started ==
    /\ cmdErr = ""
    /\ spc = "idle" /\ resp = 0 /\ k = 0 /\ d = DefaultData /\ res = InitialOut
    /\ sweepNo = 0 /\ running = 0
    /\ ended = "" /\ log = <<>> /\ failedAt = 0 /\ notified = {} /\ undelivered = {}
    /\ cmds = 0
    /\ added = [p \in Chats \X Accounts |-> Tracked(load_data(file), p[1], p[2])]
    /\ lastSet = ApiOf(load_data(file))

Init ==
    /\ file \in InitialFiles
    /\ disk = "sound"
    /\ Started
    /\ IdleProbe

Next ==
    \/ periodic_check
    \/ TickSkipped
    \/ PostAnswers
    \/ BodyArrives
    \/ SendDelivered
    \/ SendRaises
    \/ cmd_add
    \/ cmd_list
    \/ cmd_setapi
    \/ cmd_settoken

Spec == Init /\ [][Next]_vars

(***************************************************************************)
(* The same bot on a disk whose writes may fail part-way, started on any   *)
(* data.json, damaged ones included.                                       *)
(***************************************************************************)
InitFaults ==
    /\ file \in InitialFiles \cup DamagedFiles
    /\ disk = "faulty"
    /\ Started
    /\ IdleProbe

SpecFaults == InitFaults /\ [][Next]_vars

(***************************************************************************)
(* Direct calls of api_check_unlocked, over all arguments and outcomes.    *)
(***************************************************************************)
InitProbe ==
    /\ file = MissingFile
    /\ disk = "sound"
    /\ Started
    /\ p_in \in [base_url : {""} \cup Urls, bearer : {""} \cup Tokens, account : Accounts, outcome : Outcomes]
    /\ p_out = PendingResult

CallProbe ==
    /\ ~p_out.done
    /\ LET r == api_check_unlocked(p_in.base_url, p_in.bearer, p_in.account, p_in.outcome) IN
       p_out' = [raised |-> r.raised, network_calls |-> r.network_calls, out |-> r.out, done |-> TRUE]
    /\ UNCHANGED <<p_in, botVars>>

NextProbe == CallProbe

SpecProbe == InitProbe /\ [][NextProbe]_vars

(***************************************************************************)
(* Vocabulary of the properties                                            *)
(***************************************************************************)
\* the last_seen_unlocked entry of acc in dd is true
CacheTrue(dd, acc) ==
    acc \in DOMAIN dd.last_seen_unlocked /\ dd.last_seen_unlocked[acc] = TRUE

\* the probe recorded at log[i] was followed by a send_message call
Fired(i) ==
    \/ i < Len(log) /\ log[i + 1].ev \in {"sent", "send_failed"}
    \/ i = Len(log) /\ spc = "send"

\* the message of the probe recorded at log[i] was delivered
DeliveredAt(i) == i < Len(log) /\ log[i + 1].ev = "sent"

ProbeEntries == {i \in DOMAIN log : log[i].ev = "probe"}

\* the last sweep is over
SweepOver == spc = "idle" /\ ended # ""

(***************************************************************************)
(* C1..C5: the sweep's dedup, cache and isolation contracts                *)
(***************************************************************************)

\* C1: monotonic dedup across sweeps: a (subscriber, account) pair that an
\* earlier sweep notified is sent no notification by a later sweep (the model
\* has no action that resets a cache entry).
C1_NotifiedOnceAcrossSweeps == Delivered(log) \cap notified = {}

\* C2: fire condition: a probe of the sweep is followed by a notification if
\* and only if it reported unlocked and the account's cache entry is not
\* already true; no notification follows a probe that failed.
C2_FireCondition ==
    /\ \A i \in ProbeEntries :
         Fired(i) <=> (log[i].unlocked /\ ~CacheTrue(load_data(file), log[i].acc))
    /\ spc = "send" => ~ProbeFailed(res)

\* C3: cache consumption: when a sweep is over, the stored cache entry of
\* every account it delivered a notification for is true.
C3_CacheConsumed ==
    SweepOver => \A i \in ProbeEntries : DeliveredAt(i) => CacheTrue(load_data(file), log[i].acc)

\* C4: delivery-failure isolation: a send_message that raises does not end
\* the sweep by an exception, and the finished sweep has probed every pair of
\* its snapshot.
C4_DeliveryFailureIsolated ==
    (\E i \in DOMAIN log : log[i].ev = "send_failed") =>
        /\ ended # "raised"
        /\ SweepOver => \E i \in ProbeEntries : log[i].k = log[i].n

\* C5: probe-failure isolation: when a sweep in which the probe of step A
\* failed is over, every later step B was probed, and the message of every
\* later step whose probe reported unlocked was delivered.
C5_ProbeFailureIsolated ==
    (SweepOver /\ failedAt > 0) =>
        /\ \E i \in ProbeEntries : log[i].k = log[i].n
        /\ \A i \in ProbeEntries : (log[i].k > failedAt /\ log[i].unlocked) => DeliveredAt(i)

(***************************************************************************)
(* C6, C7, C9: api_check_unlocked as a function of its arguments and of    *)
(* what the network does (checked under SpecProbe)                         *)
(***************************************************************************)
ProbeCalled == p_out.done
ProbeConfigured == p_in.base_url # "" /\ p_in.bearer # ""

\* C6: api_check_unlocked never raises: it returns a record for every
\* outcome of the request, and when the transport fails the record is
\* ok=false, unlocked=false, status="error", raw = the error's description.
C6_ProbeNeverRaises ==
    ProbeCalled =>
        /\ ~p_out.raised
        /\ (ProbeConfigured /\ p_in.outcome.kind # "response") =>
             /\ p_out.out.ok = FALSE
             /\ p_out.out.unlocked = FALSE
             /\ p_out.out.status = [code |-> 0, name |-> "error"]
             /\ p_out.out.raw = [kind |-> "error", text |-> p_in.outcome.error]

C6_Witness ==
    /\ ProbeCalled /\ ProbeConfigured
    /\ p_in.outcome.kind = "post_raises" /\ p_in.outcome.error = "TimeoutError"
    /\ p_out.out.status.name = "error"

\* C7: with an empty base_url or an empty bearer token the probe returns
\* status="not-configured", ok=false, unlocked=false and makes no request.
C7_NotConfiguredShortCircuit ==
    (ProbeCalled /\ (p_in.base_url = "" \/ p_in.bearer = "")) =>
        /\ ~p_out.raised
        /\ p_out.out.status = [code |-> 0, name |-> "not-configured"]
        /\ p_out.out.ok = FALSE
        /\ p_out.out.unlocked = FALSE
        /\ p_out.network_calls = 0

C7_Witness ==
    /\ ProbeCalled /\ p_in.base_url # "" /\ p_in.bearer = ""
    /\ p_in.outcome.kind = "response" /\ p_in.outcome.body.has_unlocked /\ p_in.outcome.body.unlocked = "true"
    /\ p_out.out.status.name = "not-configured"

\* C9: the unlocked signal follows the priority order: (1) a mapping with key
\* unlocked gives the truthiness of that value; (2) else status "ok" or
\* "success" with a mapping under data that has unlocked gives the truthiness
\* of data.unlocked; (3) anything else, a non-mapping or unparsable body
\* included, gives false.
C9_ExtractionPriority ==
    (ProbeCalled /\ ProbeConfigured /\ p_in.outcome.kind = "response") =>
        LET b == p_in.outcome.body
            rule1 == b.kind = "dict" /\ b.has_unlocked
            rule2 == /\ b.kind = "dict" /\ b.status \in {"ok", "success"}
                     /\ b.data.isdict /\ b.data.has_unlocked
        IN  p_out.out.unlocked =
              IF rule1 THEN b.unlocked \in {"true", "1", "'no'", "[0]"}
              ELSE IF rule2 THEN b.data.unlocked \in {"true", "1"}
              ELSE FALSE

\* the body {"unlocked": false, "status": "ok", "data": {"unlocked": true}} gives false
C9_Witness ==
    /\ ProbeCalled /\ ProbeConfigured /\ p_in.outcome.kind = "response"
    /\ p_in.outcome.body.kind = "dict"
    /\ p_in.outcome.body.has_unlocked /\ p_in.outcome.body.unlocked = "false"
    /\ p_in.outcome.body.status = "ok"
    /\ p_in.outcome.body.data.has_unlocked /\ p_in.outcome.body.data.unlocked = "true"
    /\ p_out.out.unlocked = FALSE

(***************************************************************************)
(* C8, C10: the sweep's early return and the handlers' store updates       *)
(***************************************************************************)

\* C8: a sweep that starts while the stored url or token is empty performs no
\* probe, sends no notification and leaves the persisted store unchanged.
C8_UnconfiguredSweepNoOp ==
    [][(spc = "idle" /\ sweepNo' = sweepNo + 1
          /\ (load_data(file).api.url = "" \/ load_data(file).api.token = ""))
        => (spc' = "idle" /\ ended' = "not-configured" /\ log' = <<>> /\ file' = file)]_vars

\* an unconfigured sweep over a store that holds a url, no token and tracked accounts
C8_Witness ==
    /\ ended = "not-configured" /\ spc = "idle"
    /\ d.api.url # "" /\ d.api.token = ""
    /\ Steps(d) # <<>>
    /\ log = <<>> /\ file = save_data(file, d)

\* C10: no lost or clobbered store update: in every state, whatever sweep is
\* running, the persisted store holds every account added by a completed /add
\* in its subscriber's list and the url and token last set.
C10_NoLostUpdate ==
    /\ \A p \in Chats \X Accounts : Tracked(load_data(file), p[1], p[2]) = added[p]
    /\ load_data(file).api = lastSet

\* two commands completed while a sweep was suspended at its send_message
C10_Witness ==
    /\ spc = "send" /\ cmds = MaxCmds
    /\ load_data(file).chats # d.chats
    /\ load_data(file).api.url # d.api.url
    /\ added[<<"1001", "gamer123">>] = 2

(***************************************************************************)
(* C11, C12: the store against damaged files and failing writes (checked   *)
(* under SpecFaults)                                                       *)
(***************************************************************************)

\* C11: load_data never fails and gives the empty default for a missing or
\* malformed file, so whatever data.json contains the loaded state has the
\* keys its callers subscript and no handler or sweep ends in a KeyError.
C11_LoadAlwaysUsable ==
    /\ (~file.exists \/ ~file.text.valid) => load_data(file) = DefaultData
    /\ TopKeys \subseteq load_data(file).keys
    /\ cmdErr # "KeyError"

\* C12: save_data is atomic: a step that changes data.json leaves a complete
\* document, and a save that failed leaves the previous state to be loaded.
C12_SaveAtomic ==
    [][/\ file' # file => (file'.exists /\ file'.text.valid)
       /\ (cmds' = cmds + 1 /\ cmdErr' = "OSError") => load_data(file') = load_data(file)]_vars

(***************************************************************************)
(* C13: the scheduler's ticks                                              *)
(***************************************************************************)

\* C13: ticks are serialized: at most one sweep is running at any time, a
\* sweep starts only when no sweep is in progress, and while a sweep is running
\* no step, a tick included, starts another.
C13_SerializedTicks ==
    [][/\ running = (IF spc = "idle" THEN 0 ELSE 1)
       /\ running' <= MaxInstances
       /\ sweepNo' # sweepNo => (spc = "idle" /\ running = 0)
       /\ (spc # "idle" /\ ~CanStart(running)) => sweepNo' = sweepNo]_vars

\* the second sweep is suspended at its send_message, where the scheduler skips every tick
C13_Witness ==
    /\ spc = "send" /\ running = MaxInstances /\ ~CanStart(running)
    /\ sweepNo = 2

(***************************************************************************)
(* C14: the store's round trip                                             *)
(***************************************************************************)

\* C14: for the state s the store holds, saving s and loading it back gives
\* s again (subscribers in order with their account lists, duplicates and
\* intervals, endpoint, cache), and saving what was loaded rewrites data.json
\* to the same content.
C14_RoundTrip ==
    LET s == load_data(file) IN
    /\ load_data(save_data(file, s)) = s
    /\ file.exists => save_data(file, s) = file

\* two subscribers with different intervals, a duplicate account and a true cache entry
C14_Witness ==
    /\ file.exists
    /\ Len(load_data(file).chats) = 2
    /\ load_data(file).chats[1].accounts = <<"gamer123", "acc2", "gamer123">>
    /\ load_data(file).chats[1].interval_min # load_data(file).chats[2].interval_min
    /\ CacheTrue(load_data(file), "acc2")

(***************************************************************************)
(* C15: what a sweep probes, and in which order                            *)
(***************************************************************************)
IsProbe(e) == e.ev = "probe"

\* the probes of the last sweep, in the order they were made
ProbesOf(lg) == SelectSeq(lg, IsProbe)

\* C15: the probes of a configured sweep that is over are exactly the
\* flattening of its snapshot, one probe per list occurrence in order, and
\* every send_message directly follows the probe of its own step.
C15_SweepCoverageOrder ==
    /\ (SweepOver /\ ended # "not-configured") =>
         /\ Len(ProbesOf(log)) = Len(Steps(d))
         /\ \A j \in DOMAIN ProbesOf(log) :
              /\ ProbesOf(log)[j].k = j
              /\ ProbesOf(log)[j].chat = Steps(d)[j].chat
              /\ ProbesOf(log)[j].acc = Steps(d)[j].acc
    /\ \A i \in DOMAIN log :
         ~IsProbe(log[i]) => (i > 1 /\ IsProbe(log[i - 1]) /\ log[i - 1].k = log[i].k)

(***************************************************************************)
(* C16: the sweep's snapshot                                               *)
(***************************************************************************)

\* C16: a sweep loads the store once, at its start, and works on that
\* snapshot: its d changes only when a sweep starts, and is then what
\* data.json holds (so the next sweep sees what the handlers wrote); the log
\* starts empty with the snapshot and every probe and message added to it is
\* for a step of the snapshot, to the snapshot's url; and no step of the sweep
\* or the scheduler changes data.json.
C16_SnapshotSemantics ==
    [][/\ sweepNo' = sweepNo => d' = d
       /\ sweepNo' # sweepNo => d' = load_data(file)
       /\ d' # d => log' = <<>>
       /\ (log' # log /\ log' # <<>>) =>
            LET e == log'[Len(log')]
                steps == Steps(d')
            IN  /\ log' = Append(log, e)
                /\ e.k <= Len(steps)
                /\ e.chat = steps[e.k].chat
                /\ e.acc = steps[e.k].acc
                /\ e.url = d'.api.url
       /\ cmds' = cmds => file' = file]_vars

\* the first sweep returned after probing the two steps of its snapshot, while
\* two commands had added an account and changed the url
C16_Witness ==
    /\ sweepNo = 1 /\ ended = "returned" /\ cmds = 2
    /\ Len(ProbesOf(log)) = 2 /\ Len(Steps(d)) = 2
    /\ Len(Steps(load_data(file))) = 3
    /\ load_data(file).api.url # d.api.url

(***************************************************************************)
(* C17, C18: the last_seen_unlocked cache                                  *)
(***************************************************************************)
\* the stored cache
Cache(f) == load_data(f).last_seen_unlocked

\* the step appends an event of kind ev to the sweep's log
Logs(ev) == log' # log /\ log' # <<>> /\ log'[Len(log')].ev = ev

\* C17: the cache is monotonic: a probe that reports unlocked=false leaves the
\* stored cache as it is, and no step of a sweep or a handler makes a true
\* entry false or absent.
C17_MonotonicCache ==
    [][file' # file =>
         /\ \A a \in Accounts : CacheTrue(load_data(file), a) => CacheTrue(load_data(file'), a)
         /\ (Logs("probe") /\ ~log'[Len(log')].unlocked) => Cache(file') = Cache(file)]_vars

\* the cached account was probed as not unlocked after a /settoken and another command
C17_Witness ==
    /\ \E i \in ProbeEntries : log[i].acc = "acc2" /\ ~log[i].unlocked
    /\ CacheTrue(d, "acc2") /\ CacheTrue(load_data(file), "acc2")
    /\ lastSet.token = "tokB" /\ d.api.token = "tokB"
    /\ cmds = MaxCmds

\* C18: write-after-notify: the stored cache is changed by no handler, and by
\* the sweep only in the step that delivers a message and only in that
\* account's entry; a send that raises and a probe that does not report
\* unlocked leave data.json as it is; and a later sweep whose probe again reports
\* unlocked for a message that was not delivered sends it again.
C18_WriteAfterNotify ==
    [][/\ (file' # file /\ Cache(file') # Cache(file)) =>
            /\ cmds' = cmds /\ Logs("sent")
            /\ \A a \in (DOMAIN Cache(file) \cup DOMAIN Cache(file')) \ {log'[Len(log')].acc} :
                 a \in DOMAIN Cache(file) /\ a \in DOMAIN Cache(file') /\ Cache(file')[a] = Cache(file)[a]
       /\ Logs("send_failed") => file' = file
       /\ (Logs("probe") /\ ~log'[Len(log')].unlocked) => file' = file
       /\ (Logs("probe") /\ log'[Len(log')].unlocked
             /\ <<IntOf(log'[Len(log')].chat), log'[Len(log')].acc>> \in undelivered \ notified)
            => spc' = "send"]_vars

\* the second sweep is about to send the message whose send raised in the first
C18_Witness ==
    /\ sweepNo = 2 /\ spc = "send"
    /\ <<Recipient(Steps(d)[k]), Steps(d)[k].acc>> \in undelivered \ notified
    /\ ~CacheTrue(load_data(file), Steps(d)[k].acc)

(***************************************************************************)
(* C19: the subscriber entries                                             *)
(***************************************************************************)
\* the entry of chat in dd; for a chat without one, what setdefault() would insert less the account
EntryOf(dd, chat) ==
    IF ChatIndex(dd, chat) = 0
    THEN [id |-> chat, accounts |-> <<>>, interval_min |-> DefaultInterval]
    ELSE dd.chats[ChatIndex(dd, chat)]

\* the chats that have an entry in dd
Subscribers(dd) == {dd.chats[i].id : i \in DOMAIN dd.chats}

\* C19: a completed /add acc of a chat leaves the chat's entry with acc
\* appended at the end of its list (an entry with the list [acc] and interval
\* 5, placed after the existing entries, on the chat's first add), and leaves
\* the other entries, their order, the endpoint and the cache as they were;
\* and no step removes or moves a subscriber entry.
C19_SubscriberLifecycle ==
    [][LET old == load_data(file)
           new == load_data(file')
       IN  /\ \A c \in Chats, a \in Accounts :
                (added' # added /\ added'[<<c, a>>] # added[<<c, a>>]) =>
                  /\ EntryOf(new, c) = [EntryOf(old, c) EXCEPT !.accounts = Append(@, a)]
                  /\ ChatIndex(new, c) = (IF ChatIndex(old, c) = 0 THEN Len(old.chats) + 1 ELSE ChatIndex(old, c))
                  /\ Len(new.chats) = Len(old.chats) + (IF ChatIndex(old, c) = 0 THEN 1 ELSE 0)
                  /\ \A o \in Subscribers(old) \ {c} : EntryOf(new, o) = EntryOf(old, o)
                  /\ new.api = old.api
                  /\ new.last_seen_unlocked = old.last_seen_unlocked
           /\ file' # file => \A c \in Subscribers(old) : ChatIndex(new, c) = ChatIndex(old, c)]_vars

\* chat 1002 subscribed with its first /add and added the same account again,
\* next to the entry of chat 1001
C19_Witness ==
    /\ Len(load_data(file).chats) = 2
    /\ load_data(file).chats[1] = BootData.chats[1]
    /\ load_data(file).chats[2] = [id |-> "1002", accounts |-> <<"gamer123", "gamer123">>, interval_min |-> DefaultInterval]
    /\ load_data(file).api = BootData.api
    /\ Cache(file) = BootData.last_seen_unlocked

(***************************************************************************)
(* C20: who receives a notification                                        *)
(***************************************************************************)
IsMessage(e) == e.ev \in {"sent", "send_failed"}

\* C20: every message a sweep sends about an account goes to the chat under
\* whose list the sweep's snapshot enumerated that account at that step, and
\* names that account; no chat was ever sent a message about an account it
\* does not track.
C20_Routing ==
    /\ \A i \in DOMAIN log :
         IsMessage(log[i]) =>
           /\ log[i].k <= Len(Steps(d))
           /\ Steps(d)[log[i].k] = [chat |-> StrOf(log[i].to), acc |-> log[i].acc]
           /\ log[i].text.account = log[i].acc
           /\ Tracked(d, StrOf(log[i].to), log[i].acc) > 0
    /\ \A p \in notified \cup undelivered : Tracked(load_data(file), StrOf(p[1]), p[2]) > 0

\* one sweep delivered acc2's message to chat 1001 and gamer123's to chat 1002, which does not track acc2
C20_Witness ==
    /\ <<1001, "acc2">> \in Delivered(log)
    /\ <<1002, "gamer123">> \in Delivered(log)
    /\ Tracked(d, "1002", "acc2") = 0

====
